---- MODULE Spec2Model ----
(***************************************************************************)
(* Cooperative-store kiosk: settlement (kiosk/views.py process_payment)    *)
(* and refund (admin_panel/views.py api_process_refund) over the Product,  *)
(* Member, Transaction and ledger tables.                                  *)
(*                                                                         *)
(* Money is kept in centavos (1/100 peso).  The store is a row-locking     *)
(* database at READ COMMITTED: process_payment runs inside one             *)
(* transaction.atomic block whose writes become visible at its end and     *)
(* whose select_for_update row locks are held until then;                  *)
(* api_process_refund has no atomic block, so each of its statements is    *)
(* committed on its own (Django autocommit).                               *)
(***************************************************************************)
EXTENDS Integers, Sequences, FiniteSets, TLC

\* ------------------------------------------------------------------ bounds
NProcs == 2          \* concurrent clients (each with its own session)
MaxTxns == 2         \* Transaction rows that may be created
MaxQty == 2          \* largest well-formed quantity a cart line asks for
MaxFaults == 1       \* storage faults injected into refunds
MaxPrice == 25       \* unit prices tried, in centavos, besides the shelf prices
MaxItems == 3        \* items of a transaction whose totals are computed
MaxRefills == 2      \* refills accepted in one run
MaxPool == 5000      \* largest balance or utang the ledger calls are followed to

\* --------------------------------------------------------- program constants
QtyCap == 1000               \* largest quantity process_payment accepts
VatRatePct == 12             \* settings.VAT_RATE = 0.12
DefaultPatronageBp == 500    \* DEFAULT_PATRONAGE_RATE 0.05, in 1/10000
TypePatronageBp == 500       \* MemberType.patronage_rate default 0.05
ProductFee == 50             \* 0.50 per unit sold
DebitFee == 50               \* 0.50 per debit settlement

\* ------------------------------------------------------------- fixed data
Procs == 1..NProcs
Products == {1, 2}           \* active Product rows
NoProduct == 3               \* an id with no active Product row
Members == {1, 2, 3}         \* active Member rows
FeeAcct == 4                 \* the system account (phone 3247035272)
AllMembers == Members \cup {FeeAcct}
NoMember == 0
UnknownMember == 9           \* an id / card with no active Member row
BadMemberId == -1            \* a member_id that int() rejects

Price == [p \in Products |-> IF p = 1 THEN 2000 ELSE 5500]
InitStock == [p \in Products |-> IF p = 1 THEN 1 ELSE 2]
Role == [m \in Members |-> IF m = 2 THEN "cashier" ELSE "member"]
HasPin == [m \in Members |-> m = 1]
HasType == [m \in Members |-> m = 1]
InitBalance == [m \in Members |-> IF m = 1 THEN 3000 ELSE 10000]
SeqCards == {1, 2, UnknownMember}   \* the cards scanned at the single kiosk

CashLow == 1000              \* below every cart total
CashHigh == 20000            \* above every cart total

\* ----------------------------------------------------------------- helpers
\* Decimal.quantize(Decimal('0.01')) of n/d, default rounding ROUND_HALF_EVEN
RoundHalfEven(n, d) ==
    LET q == n \div d
        r == n % d
    IN  IF 2 * r < d THEN q
        ELSE IF 2 * r > d THEN q + 1
        ELSE IF q % 2 = 0 THEN q ELSE q + 1

RECURSIVE SeqSum(_)
SeqSum(s) == IF s = <<>> THEN 0 ELSE Head(s) + SeqSum(Tail(s))

\* TransactionItem.save(): derived columns of one line at VAT rate ratePct/100.
\* vat and vatable are computed unrounded and quantized separately.
ItemRow(pid, price, qty, ratePct) ==
    LET total == price * qty
    IN  [product |-> pid, quantity |-> qty, unit_price |-> price,
         total_price |-> total,
         vat_amount |-> RoundHalfEven(total * ratePct, 100),
         vatable_sale |-> RoundHalfEven(total * 100 - total * ratePct, 100)]

\* TransactionItem.objects.create for a cart line of product pid
MakeItem(pid, qty) == ItemRow(pid, Price[pid], qty, VatRatePct)

\* Transaction.objects.create(... status='pending'): column defaults
NewTransaction(mid, pm) ==
    [member |-> mid, payment_method |-> pm, status |-> "pending",
     items |-> <<>>, subtotal |-> 0, vatable_sale |-> 0, vat_amount |-> 0,
     total_amount |-> 0, amount_paid |-> 0, amount_from_balance |-> 0,
     amount_to_utang |-> 0, patronage_amount |-> 0,
     patronage_rate |-> DefaultPatronageBp, notes |-> <<>>,
     transaction_number |-> 0]

NewMember == [exists |-> TRUE, balance |-> 0, utang_balance |-> 0,
              total_patronage |-> 0]

\* ------------------------------------------------------------------- state
VARIABLES
    stock,       \* Product.stock_quantity
    members,     \* Member rows: balance, utang_balance, total_patronage
    txns,        \* Transaction rows with their TransactionItem rows
    stockTx,     \* StockTransaction rows
    balanceTx,   \* BalanceTransaction rows
    locked,      \* product id -> client holding its row lock (0: free)
    session,     \* request.session['kiosk_member_id'] of each client
    pc,          \* where each client's current request stands
    loc,         \* the request's local variables
    response,    \* the response the latest step returned, if it returned one
    faults       \* storage faults injected so far

vars == <<stock, members, txns, stockTx, balanceTx, locked, session, pc, loc,
          response, faults>>
db == <<stock, members, txns, stockTx, balanceTx>>

NoLoc == [op |-> "none"]
NoResponse == [op |-> "none", ok |-> FALSE, err |-> "none"]
Response(op, ok, err) == [op |-> op, ok |-> ok, err |-> err]

Init ==
    /\ stock = InitStock
    /\ members = [m \in AllMembers |->
                    IF m \in Members
                    THEN [NewMember EXCEPT !.balance = InitBalance[m]]
                    ELSE [NewMember EXCEPT !.exists = FALSE]]
    /\ txns = <<>>
    /\ stockTx = <<>>
    /\ balanceTx = <<>>
    /\ locked = [p \in Products |-> 0]
    /\ session = [c \in Procs |-> NoMember]
    /\ pc = [c \in Procs |-> "idle"]
    /\ loc = [c \in Procs |-> NoLoc]
    /\ response = NoResponse
    /\ faults = 0

\* ----------------------------------------------------------------- scan_rfid
\* scan_rfid binding the session to whatever card number was read
ScanRfid_AnyCard(c, rfid) ==
    /\ pc[c] = "idle"
    /\ session' = [session EXCEPT ![c] = rfid]
    /\ response' = NoResponse
    /\ UNCHANGED <<stock, members, txns, stockTx, balanceTx, locked, pc, loc, faults>>

\* Binds the client's session to the member owning the card.
ScanRfid(c, rfid) ==
    /\ pc[c] = "idle"
    /\ IF rfid \in Members
       THEN session' = [session EXCEPT ![c] = rfid]
       ELSE session' = session
    /\ response' = NoResponse
    /\ UNCHANGED <<stock, members, txns, stockTx, balanceTx, locked, pc, loc, faults>>

\* ---------------------------------------------------- process_payment: input
Cash(kind, value) == [kind |-> kind, value |-> value]
CashInputs == {Cash("none", 0), Cash("bad", 0), Cash("num", CashLow),
               Cash("num", Price[1]), Cash("num", CashHigh)}
Line(pid, qty, kind) == [product_id |-> pid, quantity |-> qty, kind |-> kind]
GoodLines == {Line(1, 1, "ok")} \cup {Line(2, q, "ok") : q \in 1..MaxQty}
GoodCarts == {<<a>> : a \in GoodLines}
             \cup {<<Line(1, 1, "ok"), Line(1, 1, "ok")>>,
                   <<Line(1, 1, "ok"), Line(2, 1, "ok")>>,
                   <<Line(2, 1, "ok"), Line(1, 1, "ok")>>}
BadCarts == {<<Line(1, 1, "missing")>>,
             <<Line(1, 1, "ok"), Line(2, 0, "ok")>>,
             <<Line(1, 1, "ok"), Line(NoProduct, 1, "ok")>>}

\* int(item_data['quantity']) of a line that parses: kind "ok" sends the
\* integer quantity, kind "frac" sends quantity + 1/2 (a JSON number such as
\* 1.5), which int() truncates to its whole part
IntOf(it) == it.quantity

\* line 213: the parsed integer replaces the value sent
Normalized(items) ==
    [i \in 1..Len(items) |->
        Line(items[i].product_id, IntOf(items[i]), "ok")]

\* lines 203-216: the first malformed line decides the error
RECURSIVE ValidateItems(_)
ValidateItems(items) ==
    IF items = <<>> THEN "none"
    ELSE LET it == Head(items)
         IN  IF it.kind = "missing" THEN "invalid_item"
             ELSE IF it.kind = "nan" THEN "invalid_quantity"
             ELSE IF IntOf(it) <= 0 THEN "quantity_not_positive"
             ELSE IF IntOf(it) > QtyCap THEN "quantity_over_cap"
             ELSE ValidateItems(Tail(items))

\* check_pin accepting any PIN when no hash is stored
CheckPin_NoHashPasses(m, pin) == ~HasPin[m] \/ pin = "good"

\* Member.check_pin: no stored hash never verifies
CheckPin(m, pin) == HasPin[m] /\ pin = "good"

\* ResolveMember without the comparison with the session's member
ResolveMember_NoSession(req, sess) ==
    IF req.member_id # NoMember
    THEN IF req.member_id = BadMemberId
         THEN [err |-> "invalid_member_id", member_id |-> NoMember]
         ELSE IF req.member_id \notin Members
         THEN [err |-> "member_not_found", member_id |-> NoMember]
         ELSE IF req.payment_method \in {"debit", "credit"}
                 /\ Role[req.member_id] \notin {"cashier", "admin"}
                 /\ req.pin = "none"
         THEN [err |-> "pin_required", member_id |-> NoMember]
         ELSE IF req.payment_method \in {"debit", "credit"}
                 /\ Role[req.member_id] \notin {"cashier", "admin"}
                 /\ ~CheckPin(req.member_id, req.pin)
         THEN [err |-> "invalid_pin", member_id |-> NoMember]
         ELSE [err |-> "none", member_id |-> req.member_id]
    ELSE IF req.payment_method \in {"debit", "credit"}
         THEN [err |-> "member_required", member_id |-> NoMember]
         ELSE [err |-> "none", member_id |-> req.user]

\* lines 160-200: which member the sale is for, or why it is refused
ResolveMember(req, sess) ==
    IF req.member_id # NoMember
    THEN IF req.member_id = BadMemberId
         THEN [err |-> "invalid_member_id", member_id |-> NoMember]
         ELSE IF req.payment_method \in {"debit", "credit"}
                 /\ (sess = NoMember \/ sess # req.member_id)
         THEN [err |-> "auth_required", member_id |-> NoMember]
         ELSE IF req.member_id \notin Members
         THEN [err |-> "member_not_found", member_id |-> NoMember]
         ELSE IF req.payment_method \in {"debit", "credit"}
                 /\ Role[req.member_id] \notin {"cashier", "admin"}
                 /\ req.pin = "none"
         THEN [err |-> "pin_required", member_id |-> NoMember]
         ELSE IF req.payment_method \in {"debit", "credit"}
                 /\ Role[req.member_id] \notin {"cashier", "admin"}
                 /\ ~CheckPin(req.member_id, req.pin)
         THEN [err |-> "invalid_pin", member_id |-> NoMember]
         ELSE [err |-> "none", member_id |-> req.member_id]
    ELSE IF req.payment_method \in {"debit", "credit"}
         THEN [err |-> "member_required", member_id |-> NoMember]
         ELSE [err |-> "none", member_id |-> req.user]

\* lines 148-216: everything process_payment decides before touching a row
BeginCheck(req, sess) ==
    IF req.items = <<>> THEN [err |-> "no_items", member_id |-> NoMember]
    ELSE IF req.payment_method \notin {"debit", "credit", "cash"}
    THEN [err |-> "invalid_payment_method", member_id |-> NoMember]
    ELSE LET r == ResolveMember(req, sess)
         IN  IF r.err # "none" THEN r
             ELSE [err |-> ValidateItems(req.items), member_id |-> r.member_id]

InFlightSettles == Cardinality({c \in Procs : pc[c] \in {"s_lock", "s_body"}})

Request(mid, items, pm, pin, cash, user) ==
    [member_id |-> mid, items |-> items, payment_method |-> pm, pin |-> pin,
     cash_amount |-> cash, user |-> user]

\* process_payment up to line 216: parse, authenticate, read the member row
SettleBegin(c, req) ==
    /\ pc[c] = "idle"
    /\ Len(txns) + InFlightSettles < MaxTxns
    /\ LET chk == BeginCheck(req, session[c])
       IN  IF chk.err # "none"
           THEN /\ response' = Response("settle", FALSE, chk.err)
                /\ UNCHANGED <<pc, loc>>
           ELSE /\ pc' = [pc EXCEPT ![c] = "s_lock"]
                /\ loc' = [loc EXCEPT ![c] =
                     [op |-> "settle",
                      member_id |-> chk.member_id,
                      member |-> IF chk.member_id = NoMember THEN NewMember
                                 ELSE members[chk.member_id],
                      body |-> req.items,
                      items |-> Normalized(req.items),
                      pin |-> req.pin,
                      payment_method |-> req.payment_method,
                      cash_amount |-> req.cash_amount,
                      product_map |-> [p \in {} |-> 0]]]
                /\ response' = NoResponse
    /\ UNCHANGED <<stock, members, txns, stockTx, balanceTx, locked, session,
                   faults>>

\* lines 218-220: SELECT ... FOR UPDATE of the cart's active products; waits
\* while another unit of work holds one of the rows, then reads them
CartProducts(items) == {items[i].product_id : i \in 1..Len(items)} \cap Products

\* SettleLock as a plain SELECT: reads the rows without locking them
SettleLock_NoWait(c) ==
    /\ pc[c] = "s_lock"
    /\ loc' = [loc EXCEPT ![c].product_map =
                 [p \in CartProducts(loc[c].items) |-> stock[p]]]
    /\ pc' = [pc EXCEPT ![c] = "s_body"]
    /\ response' = NoResponse
    /\ UNCHANGED <<stock, members, txns, stockTx, balanceTx, locked, session,
                   faults>>

SettleLock(c) ==
    /\ pc[c] = "s_lock"
    /\ \A p \in CartProducts(loc[c].items) : locked[p] = 0
    /\ locked' = [p \in Products |->
                    IF p \in CartProducts(loc[c].items) THEN c ELSE locked[p]]
    /\ loc' = [loc EXCEPT ![c].product_map =
                 [p \in CartProducts(loc[c].items) |-> stock[p]]]
    /\ pc' = [pc EXCEPT ![c] = "s_body"]
    /\ response' = NoResponse
    /\ UNCHANGED <<stock, members, txns, stockTx, balanceTx, session,
                   faults>>

\* Product.Meta ordering = ['name'] puts 'Coca Cola 1.5L' (product 2) before
\* 'Nova Cheese' (product 1): the rank of each product in the query's ORDER BY
NameRank == [p \in Products |-> IF p = 2 THEN 1 ELSE 2]

\* the cart's rows client c has still to lock
RowsToLock(c) == {p \in CartProducts(loc[c].items) : locked[p] # c}

\* the next row taken in the order the cart lists the products
NextRow_CartOrder(c) ==
    LET items == loc[c].items
        i0 == CHOOSE i \in 1..Len(items) :
                 /\ items[i].product_id \in RowsToLock(c)
                 /\ \A j \in 1..(i - 1) : items[j].product_id \notin RowsToLock(c)
    IN  items[i0].product_id

\* line 219: the rows of SELECT ... ORDER BY name FOR UPDATE are locked one
\* after the other in the order of the result, whatever the cart's order
NextRow(c) ==
    CHOOSE p \in RowsToLock(c) :
        \A q \in RowsToLock(c) : NameRank[p] <= NameRank[q]

\* lines 218-220, one row lock at a time: the query waits at the first row
\* another unit of work holds and returns once it holds them all
SettleLockRow(c) ==
    /\ pc[c] = "s_lock"
    /\ IF RowsToLock(c) = {}
       THEN /\ locked' = locked
            /\ pc' = [pc EXCEPT ![c] = "s_body"]
            /\ loc' = [loc EXCEPT ![c].product_map =
                         [p \in CartProducts(loc[c].items) |-> stock[p]]]
       ELSE LET p == NextRow(c)
            IN  /\ locked[p] = 0
                /\ locked' = [locked EXCEPT ![p] = c]
                /\ IF RowsToLock(c) = {p}
                   THEN /\ pc' = [pc EXCEPT ![c] = "s_body"]
                        /\ loc' = [loc EXCEPT ![c].product_map =
                                     [q \in CartProducts(loc[c].items) |->
                                         stock[q]]]
                   ELSE UNCHANGED <<pc, loc>>
    /\ response' = NoResponse
    /\ UNCHANGED <<stock, members, txns, stockTx, balanceTx, session,
                   faults>>

\* ------------------------------------------- process_payment: unit of work
\* A unit of work u carries the tables as this request sees them, the Member
\* instance it loaded (mem), the locked Product instances (pmap) and err.
Tid(u) == Len(u.txns)

\* lines 222-229: every line must name a locked product holding its quantity
RECURSIVE CheckLines(_, _)
CheckLines(items, pmap) ==
    IF items = <<>> THEN "none"
    ELSE LET it == Head(items)
         IN  IF it.product_id \notin DOMAIN pmap THEN "invalid_product"
             ELSE IF pmap[it.product_id] < it.quantity
             THEN "insufficient_stock"
             ELSE CheckLines(Tail(items), pmap)

\* lines 253-266 for one line: reduce the locked instance, save it, log it
ReduceStock(u, pid, qty) ==
    [u EXCEPT !.pmap[pid] = @ - qty,
              !.stock[pid] = u.pmap[pid] - qty,
              !.stockTx = Append(@, [product |-> pid,
                                     transaction_type |-> "out",
                                     quantity |-> qty,
                                     stock_before |-> u.pmap[pid],
                                     stock_after |-> u.pmap[pid] - qty])]

\* SellLines without the re-check of line 254
RECURSIVE SellLines_NoRecheck(_, _)
SellLines_NoRecheck(u, items) ==
    IF items = <<>> THEN u
    ELSE LET it == Head(items)
             u1 == [u EXCEPT !.txns[Tid(u)].items =
                       Append(@, MakeItem(it.product_id, it.quantity))]
         IN  SellLines_NoRecheck(ReduceStock(u1, it.product_id, it.quantity),
                                 Tail(items))

\* lines 238-266: one TransactionItem per line, then its stock reduction;
\* a line the instance can no longer cover raises after its item is stored
RECURSIVE SellLines(_, _)
SellLines(u, items) ==
    IF items = <<>> THEN u
    ELSE LET it == Head(items)
             u1 == [u EXCEPT !.txns[Tid(u)].items =
                       Append(@, MakeItem(it.product_id, it.quantity))]
         IN  IF u.pmap[it.product_id] >= it.quantity
             THEN SellLines(ReduceStock(u1, it.product_id, it.quantity),
                            Tail(items))
             ELSE [u1 EXCEPT !.err = "stock_exception"]

\* Transaction.calculate_totals
CalculateTotals(u) ==
    LET its == u.txns[Tid(u)].items
        subtotal == SeqSum([i \in 1..Len(its) |-> its[i].total_price])
        vat == SeqSum([i \in 1..Len(its) |-> its[i].vat_amount])
        vatable == SeqSum([i \in 1..Len(its) |-> its[i].vatable_sale])
    IN  [u EXCEPT !.txns[Tid(u)].subtotal = subtotal,
                  !.txns[Tid(u)].vat_amount = vat,
                  !.txns[Tid(u)].vatable_sale = vatable,
                  !.txns[Tid(u)].total_amount = vat + vatable]

\* Member.save(): every column is written from the loaded instance
SaveMember(u, mid) ==
    IF mid = NoMember THEN u ELSE [u EXCEPT !.members[mid] = u.mem]

\* Transaction.calculate_patronage
PatronageBp(mid) ==
    IF mid # NoMember /\ HasType[mid] THEN TypePatronageBp
    ELSE DefaultPatronageBp

CalculatePatronage_NoAccrual(u, mid) ==
    [u EXCEPT !.txns[Tid(u)].patronage_rate = PatronageBp(mid),
              !.txns[Tid(u)].patronage_amount =
                  RoundHalfEven(u.txns[Tid(u)].subtotal * PatronageBp(mid),
                                10000)]

CalculatePatronage(u, mid) ==
    LET amount == u.txns[Tid(u)].subtotal * PatronageBp(mid)
        u1 == [u EXCEPT !.txns[Tid(u)].patronage_rate = PatronageBp(mid),
                        !.txns[Tid(u)].patronage_amount =
                            RoundHalfEven(amount, 10000)]
    IN  IF mid = NoMember THEN u1
        ELSE SaveMember([u1 EXCEPT !.mem.total_patronage =
                            RoundHalfEven(@ * 10000 + amount, 10000)], mid)

\* BalanceTransaction.objects.create
\* notes: what the row is for and the transaction it names
BalanceRow(mid, type, amount, bb, ba, ub, ua, what, tid) ==
    [member |-> mid, transaction_type |-> type, amount |-> amount,
     balance_before |-> bb, balance_after |-> ba,
     utang_before |-> ub, utang_after |-> ua,
     notes |-> [what |-> what, txn |-> tid]]

\* lines 283-321 and 382-422: find or create the system account, credit it
CreditFeeAccount(u, amount, what) ==
    LET acct == IF u.members[FeeAcct].exists THEN u.members[FeeAcct]
                ELSE NewMember
    IN  [u EXCEPT !.members[FeeAcct] = [acct EXCEPT !.balance = @ + amount],
                  !.balanceTx = Append(@,
                      BalanceRow(FeeAcct, "deposit", amount, acct.balance,
                                 acct.balance + amount, 0, 0, what, Tid(u)))]

\* lines 271-337: the per-unit product fee, charged to the member if any
ProductFeeStep(u, mid, items) ==
    LET units == SeqSum([i \in 1..Len(items) |-> items[i].quantity])
        fee == units * ProductFee
        u1 == CreditFeeAccount(u, fee, "product_fee")
    IN  IF fee <= 0 THEN u
        ELSE IF mid = NoMember THEN u1
        ELSE [u1 EXCEPT !.mem.balance = @ - fee,
                        !.members[mid].balance = u.mem.balance - fee,
                        !.balanceTx = Append(@,
                            BalanceRow(mid, "deduction", fee, u.mem.balance,
                                       u.mem.balance - fee, 0, 0,
                                       "product_fee", Tid(u)))]

\* Member.deduct_balance
DeductBalance(u, mid, amount) ==
    IF u.mem.balance >= amount
    THEN SaveMember([u EXCEPT !.mem.balance = @ - amount], mid)
    ELSE u

\* add_utang assigning the amount instead of adding it
AddUtang_Overwrite(u, mid, amount) ==
    SaveMember([u EXCEPT !.mem.utang_balance = amount], mid)

\* Member.add_utang
AddUtang(u, mid, amount) ==
    SaveMember([u EXCEPT !.mem.utang_balance = @ + amount], mid)

\* lines 361-440: debit, spilling into utang when the balance is short
PayDebit(u, mid) ==
    LET total == u.txns[Tid(u)].total_amount
        fromBal == u.mem.balance
        u1 == IF u.mem.balance >= total
              THEN [DeductBalance(u, mid, total) EXCEPT
                       !.txns[Tid(u)].amount_from_balance = total,
                       !.txns[Tid(u)].status = "completed"]
              ELSE [AddUtang(DeductBalance(u, mid, fromBal), mid,
                             total - fromBal) EXCEPT
                       !.txns[Tid(u)].amount_from_balance = fromBal,
                       !.txns[Tid(u)].amount_to_utang = total - fromBal,
                       !.txns[Tid(u)].payment_method = "credit",
                       !.txns[Tid(u)].status = "completed"]
    IN  CreditFeeAccount(u1, DebitFee, "debit_fee")

\* lines 441-444
PayCredit(u, mid) ==
    LET total == u.txns[Tid(u)].total_amount
    IN  [AddUtang(u, mid, total) EXCEPT
            !.txns[Tid(u)].amount_to_utang = total,
            !.txns[Tid(u)].status = "completed"]

\* the cash branch taking whatever amount is tendered
PayCash_NoCheck(u, cash) ==
    LET total == u.txns[Tid(u)].total_amount
    IN  IF cash.kind = "none"
        THEN [u EXCEPT !.txns[Tid(u)].amount_paid = total,
                       !.txns[Tid(u)].status = "completed"]
        ELSE IF cash.kind = "bad" THEN [u EXCEPT !.err = "invalid_cash"]
        ELSE [u EXCEPT !.txns[Tid(u)].amount_paid = cash.value,
                       !.txns[Tid(u)].status = "completed"]

\* lines 446-463: an unparsable or short cash amount returns a failure
PayCash(u, cash) ==
    LET total == u.txns[Tid(u)].total_amount
    IN  IF cash.kind = "none"
        THEN [u EXCEPT !.txns[Tid(u)].amount_paid = total,
                       !.txns[Tid(u)].status = "completed"]
        ELSE IF cash.kind = "bad" THEN [u EXCEPT !.err = "invalid_cash"]
        ELSE IF cash.value < total THEN [u EXCEPT !.err = "insufficient_cash"]
        ELSE [u EXCEPT !.txns[Tid(u)].amount_paid = cash.value,
                       !.txns[Tid(u)].status = "completed"]

\* lines 488-491: the change the success response reports
ChangeAmount(t) ==
    IF t.payment_method = "cash" /\ t.amount_paid > t.total_amount
    THEN t.amount_paid - t.total_amount
    ELSE 0

\* lines 361-469
Pay(u, l) ==
    LET paid == IF l.payment_method = "debit" /\ l.member_id # NoMember
                THEN PayDebit(u, l.member_id)
                ELSE IF l.payment_method = "credit" /\ l.member_id # NoMember
                THEN PayCredit(u, l.member_id)
                ELSE IF l.payment_method = "cash"
                THEN PayCash(u, l.cash_amount)
                ELSE u
    IN  IF paid.err # "none" THEN paid ELSE SaveMember(paid, l.member_id)

\* lines 222-469 on the tables as they stand: what the unit of work holds
\* when process_payment returns
SettleUnit(l, u0) ==
    IF CheckLines(l.items, l.product_map) # "none"
    THEN [u0 EXCEPT !.err = CheckLines(l.items, l.product_map)]
    ELSE LET u1 == [u0 EXCEPT !.txns = Append(@,
                        [NewTransaction(l.member_id, l.payment_method) EXCEPT
                            !.transaction_number = Len(u0.txns) + 1])]
             u2 == SellLines(u1, l.items)
         IN  IF u2.err # "none" THEN u2
             ELSE Pay(ProductFeeStep(
                        CalculatePatronage(CalculateTotals(u2), l.member_id),
                        l.member_id, l.items), l)

\* What the atomic block does with the unit of work when the view returns.
\* The view catches its own exceptions and returns a response, so the block
\* is left without an exception and commits whatever was written.
Committed(u, u0) == u

\* process_payment from line 222 to its return, and the end of the atomic
\* block: the writes become visible and the row locks are released
SettleBody(c) ==
    /\ pc[c] = "s_body"
    /\ LET l == loc[c]
           u0 == [stock |-> stock, members |-> members, txns |-> txns,
                  stockTx |-> stockTx, balanceTx |-> balanceTx,
                  mem |-> l.member, pmap |-> l.product_map, err |-> "none"]
           u == SettleUnit(l, u0)
           w == Committed(u, u0)
       IN  /\ stock' = w.stock
           /\ members' = w.members
           /\ txns' = w.txns
           /\ stockTx' = w.stockTx
           /\ balanceTx' = w.balanceTx
           /\ response' = Response("settle", u.err = "none", u.err)
           /\ session' = IF u.err = "none"
                         THEN [session EXCEPT ![c] = NoMember]
                         ELSE session
    /\ locked' = [p \in Products |-> IF locked[p] = c THEN 0 ELSE locked[p]]
    /\ pc' = [pc EXCEPT ![c] = "idle"]
    /\ loc' = [loc EXCEPT ![c] = NoLoc]
    /\ UNCHANGED faults

\* ------------------------------------ process_payment: return and commit
\* the session store written through at the pop
SessionAtPop_WriteThrough(c, u) ==
    IF u.err = "none" THEN [session EXCEPT ![c] = NoMember] ELSE session

\* lines 471-472: request.session.pop changes the request's own session
\* object; the session store keeps the binding until the response is saved
SessionAtPop(c, u) == session

\* process_payment from line 222 to its return, inside the atomic block: the
\* writes are held by the open transaction, the session keys are popped from
\* the request's session when the sale succeeded
SettleRun(c) ==
    /\ pc[c] = "s_body"
    /\ LET l == loc[c]
           u0 == [stock |-> stock, members |-> members, txns |-> txns,
                  stockTx |-> stockTx, balanceTx |-> balanceTx,
                  mem |-> l.member, pmap |-> l.product_map, err |-> "none"]
           u == SettleUnit(l, u0)
       IN  /\ loc' = [loc EXCEPT ![c] =
                 [op |-> "settle", member_id |-> l.member_id,
                  payment_method |-> l.payment_method,
                  unit |-> Committed(u, u0),
                  request_session |-> IF u.err = "none" THEN NoMember
                                      ELSE session[c]]]
           /\ session' = SessionAtPop(c, u)
    /\ pc' = [pc EXCEPT ![c] = "s_commit"]
    /\ response' = NoResponse
    /\ UNCHANGED <<stock, members, txns, stockTx, balanceTx, locked, faults>>

\* line 145: leaving the atomic block commits the unit of work and releases
\* the row locks
SettleCommit(c) ==
    /\ pc[c] = "s_commit"
    /\ LET w == loc[c].unit
       IN  /\ stock' = w.stock
           /\ members' = w.members
           /\ txns' = w.txns
           /\ stockTx' = w.stockTx
           /\ balanceTx' = w.balanceTx
    /\ locked' = [p \in Products |-> IF locked[p] = c THEN 0 ELSE locked[p]]
    /\ pc' = [pc EXCEPT ![c] = "s_saved"]
    /\ response' = NoResponse
    /\ UNCHANGED <<session, loc, faults>>

\* line 145: a commit that fails rolls the unit of work back and raises out
\* of the view; the response is a server error and the session is not saved
SettleCommitFault(c) ==
    /\ pc[c] = "s_commit"
    /\ faults < MaxFaults
    /\ faults' = faults + 1
    /\ locked' = [p \in Products |-> IF locked[p] = c THEN 0 ELSE locked[p]]
    /\ pc' = [pc EXCEPT ![c] = "idle"]
    /\ loc' = [loc EXCEPT ![c] = NoLoc]
    /\ response' = Response("settle", FALSE, "server_error")
    /\ UNCHANGED <<stock, members, txns, stockTx, balanceTx, session>>

\* the response leaves: the request's session is written to the store
SessionSave(c) ==
    /\ pc[c] = "s_saved"
    /\ session' = [session EXCEPT ![c] = loc[c].request_session]
    /\ response' = Response("settle", loc[c].unit.err = "none",
                            loc[c].unit.err)
    /\ pc' = [pc EXCEPT ![c] = "idle"]
    /\ loc' = [loc EXCEPT ![c] = NoLoc]
    /\ UNCHANGED <<stock, members, txns, stockTx, balanceTx, locked, faults>>

\* ------------------------------- process_payment: the transaction number
\* lines 19-22: the second of the clock and four random digits; two calls in
\* the same second may draw the same digits, so a call returns any number,
\* one already given out included
TxnNumbers == 1..MaxTxns

\* transaction_number is unique: the numbers on file
NumbersOnFile == {txns[t].transaction_number : t \in 1..Len(txns)}

\* process_payment from line 222 to the end of the atomic block when
\* generate_transaction_number returns n: Transaction.objects.create at line
\* 231 raises IntegrityError on a number already on file, the view answers
\* with a failure and the block leaves nothing behind
SettleNumbered(c, n) ==
    /\ pc[c] = "s_body"
    /\ LET l == loc[c]
           u0 == [stock |-> stock, members |-> members, txns |-> txns,
                  stockTx |-> stockTx, balanceTx |-> balanceTx,
                  mem |-> l.member, pmap |-> l.product_map, err |-> "none"]
           u == SettleUnit(l, u0)
           created == Len(u.txns) > Len(txns)
           w == IF ~created THEN u
                ELSE IF n \in NumbersOnFile
                THEN [u0 EXCEPT !.err = "server_error"]
                ELSE [u EXCEPT !.txns[Len(txns) + 1].transaction_number = n]
       IN  /\ stock' = w.stock
           /\ members' = w.members
           /\ txns' = w.txns
           /\ stockTx' = w.stockTx
           /\ balanceTx' = w.balanceTx
           /\ response' = Response("settle", w.err = "none", w.err)
           /\ session' = IF w.err = "none"
                         THEN [session EXCEPT ![c] = NoMember]
                         ELSE session
    /\ locked' = [p \in Products |-> IF locked[p] = c THEN 0 ELSE locked[p]]
    /\ pc' = [pc EXCEPT ![c] = "idle"]
    /\ loc' = [loc EXCEPT ![c] = NoLoc]
    /\ UNCHANGED faults

\* ------------------------------------------------------- api_process_refund
StaffUser == 8               \* a logged-in staff/superuser without Member row
PlainUser == 0               \* a logged-in user without Member row
Actors == Members \cup {StaffUser, PlainUser}

\* text as the sequence of its characters
Refunded == <<"R", "e", "f", "u", "n", "d", "e", "d">>
Damaged == <<"d", "a", "m", "a", "g", "e", "d">>
Reasons == {<<>>, Damaged}
Whitespace == {" ", "\t", "\n"}

\* str.strip(): the text without its leading and trailing whitespace
RECURSIVE StripLeft(_)
StripLeft(s) ==
    IF s # <<>> /\ Head(s) \in Whitespace THEN StripLeft(Tail(s)) ELSE s

RECURSIVE StripRight(_)
StripRight(s) ==
    IF s # <<>> /\ s[Len(s)] \in Whitespace
    THEN StripRight(SubSeq(s, 1, Len(s) - 1)) ELSE s

\* strip() returning the text as it came
Strip_Identity(s) == s

Strip(s) == StripRight(StripLeft(s))

\* is_cashier_or_admin without the role test: any linked member passes
IsCashierOrAdmin_AnyRole(actor) == actor = StaffUser \/ actor \in Members

\* is_cashier_or_admin
IsCashierOrAdmin(actor) ==
    \/ actor = StaffUser
    \/ actor \in Members /\ Role[actor] \in {"cashier", "admin"}

\* RefundCheck loading the transaction whatever its status
RefundCheck_AnyStatus(req) ==
    IF req.transaction_id = 0 THEN "transaction_id_required"
    ELSE IF req.transaction_id > Len(txns) THEN "not_eligible"
    ELSE IF IsCashierOrAdmin(req.actor) THEN "none"
    ELSE IF req.actor \notin Members THEN "permission_denied"
    ELSE IF txns[req.transaction_id].member # req.actor THEN "not_owner"
    ELSE "none"

\* lines 1629-1657: parse, load the completed transaction, check the actor
RefundCheck(req) ==
    IF req.transaction_id = 0 THEN "transaction_id_required"
    ELSE IF req.transaction_id > Len(txns) THEN "not_eligible"
    ELSE IF txns[req.transaction_id].status # "completed" THEN "not_eligible"
    ELSE IF IsCashierOrAdmin(req.actor) THEN "none"
    ELSE IF req.actor \notin Members THEN "permission_denied"
    ELSE IF txns[req.transaction_id].member # req.actor THEN "not_owner"
    ELSE "none"

RefundRequest(tid, reason, actor) ==
    [transaction_id |-> tid, reason |-> reason, actor |-> actor]

RefundBegin(c, req) ==
    /\ pc[c] = "idle"
    /\ LET err == RefundCheck(req)
       IN  IF err # "none"
           THEN /\ response' = Response("refund", FALSE, err)
                /\ UNCHANGED <<pc, loc>>
           ELSE LET t == txns[req.transaction_id]
                IN  /\ pc' = [pc EXCEPT ![c] = "r_credit"]
                    /\ loc' = [loc EXCEPT ![c] =
                         [op |-> "refund",
                          tid |-> req.transaction_id,
                          reason |-> Strip(req.reason),
                          body_reason |-> req.reason,
                          actor |-> req.actor,
                          txn |-> t,
                          member_id |-> t.member,
                          member |-> IF t.member = NoMember THEN NewMember
                                     ELSE members[t.member],
                          i |-> 1,
                          product_stock |-> 0]]
                    /\ response' = NoResponse
    /\ UNCHANGED <<stock, members, txns, stockTx, balanceTx, locked, session,
                   faults>>

\* add_balance paying the amount off the utang instead
AddBalance_PayUtang(mem, amount) == [mem EXCEPT !.utang_balance = @ - amount]

\* Member.add_balance
AddBalance(mem, amount) == [mem EXCEPT !.balance = @ + amount]

\* where the refund goes after the member step / after an item
AfterItem(l, i) == IF i <= Len(l.txn.items) THEN "r_read" ELSE "r_mark"

\* lines 1667-1686: credit the owner's balance and log the deposit
RefundCredit(c) ==
    /\ pc[c] = "r_credit"
    /\ LET l == loc[c]
           credited == AddBalance(l.member, l.txn.total_amount)
       IN  IF l.member_id = NoMember
           THEN UNCHANGED <<members, balanceTx, loc>>
           ELSE /\ members' = [members EXCEPT ![l.member_id] = credited]
                /\ balanceTx' = Append(balanceTx,
                      BalanceRow(l.member_id, "deposit", l.txn.total_amount,
                                 l.member.balance, credited.balance,
                                 l.member.utang_balance,
                                 credited.utang_balance, "refund", l.tid))
                /\ loc' = [loc EXCEPT ![c].member = credited]
    /\ pc' = [pc EXCEPT ![c] = AfterItem(loc[c], 1)]
    /\ response' = NoResponse
    /\ UNCHANGED <<stock, txns, stockTx, locked, session, faults>>

\* line 1690: item.product is fetched when the loop reaches the item
RefundRead(c) ==
    /\ pc[c] = "r_read"
    /\ LET it == loc[c].txn.items[loc[c].i]
       IN  loc' = [loc EXCEPT ![c].product_stock = stock[it.product]]
    /\ pc' = [pc EXCEPT ![c] = "r_write"]
    /\ response' = NoResponse
    /\ UNCHANGED <<stock, members, txns, stockTx, balanceTx, locked, session, faults>>

\* the stock the refund writes back for one item
Restocked(read, it) == read + it.quantity

\* lines 1691-1692: write the fetched instance back with the quantity added;
\* the UPDATE waits while a settlement holds the row lock
RefundWrite(c) ==
    /\ pc[c] = "r_write"
    /\ LET l == loc[c]
           it == l.txn.items[l.i]
       IN  /\ locked[it.product] = 0
           /\ stock' = [stock EXCEPT ![it.product] =
                           Restocked(l.product_stock, it)]
           /\ loc' = [loc EXCEPT ![c].i = l.i + 1]
           /\ pc' = [pc EXCEPT ![c] = AfterItem(l, l.i + 1)]
    /\ response' = NoResponse
    /\ UNCHANGED <<members, txns, stockTx, balanceTx, locked, session,
                   faults>>

\* line 1696
RefundNotes(reason) ==
    IF reason = <<>> THEN Refunded ELSE Refunded \o <<".", " ">> \o reason

\* lines 1694-1715: save the loaded transaction as cancelled, respond
RefundMark(c) ==
    /\ pc[c] = "r_mark"
    /\ txns' = [txns EXCEPT ![loc[c].tid] =
                  [loc[c].txn EXCEPT !.status = "cancelled",
                                     !.notes = RefundNotes(loc[c].reason)]]
    /\ response' = Response("refund", TRUE, "none")
    /\ pc' = [pc EXCEPT ![c] = "idle"]
    /\ loc' = [loc EXCEPT ![c] = NoLoc]
    /\ UNCHANGED <<stock, members, stockTx, balanceTx, locked, session,
                   faults>>

\* lines 1719-1720: a save() that raises ends the request with a failure
\* response; nothing undoes the statements already committed
RefundFault(c) ==
    /\ pc[c] \in {"r_credit", "r_write", "r_mark"}
    /\ faults < MaxFaults
    /\ faults' = faults + 1
    /\ response' = Response("refund", FALSE, "server_error")
    /\ pc' = [pc EXCEPT ![c] = "idle"]
    /\ loc' = [loc EXCEPT ![c] = NoLoc]
    /\ UNCHANGED <<stock, members, txns, stockTx, balanceTx, locked, session>>

\* ------------------------------------------------------ refund reporting
\* the lower-case form of a character (of the letters the marker is made of)
Lower(ch) ==
    CASE ch = "R" -> "r" [] ch = "E" -> "e" [] ch = "F" -> "f"
      [] ch = "U" -> "u" [] ch = "N" -> "n" [] ch = "D" -> "d"
      [] OTHER -> ch

\* notes__icontains: the needle occurs in the text, whatever the case
IContains(text, needle) ==
    \E i \in 1..(Len(text) - Len(needle) + 1) :
        \A j \in 1..Len(needle) : Lower(text[i + j - 1]) = Lower(needle[j])

\* lines 215-217: what the dashboard counts as a refund
ReportsRefund(t) ==
    /\ t.status = "cancelled"
    /\ IContains(t.notes, <<"R", "e", "f", "u", "n", "d">>)

\* ------------------------------------------------- Member ledger methods
\* a unit of work holding the member row m as loaded
LoadedMember(m) == [members |-> members, mem |-> members[m]]

\* Member.reduce_utang
ReduceUtang(u, mid, amount) ==
    IF u.mem.utang_balance >= amount
    THEN SaveMember([u EXCEPT !.mem.utang_balance = @ - amount], mid)
    ELSE u

\* the row stays within the range the calls are followed to
InPool(row) ==
    /\ row.balance \in (0 - MaxPool)..MaxPool
    /\ row.utang_balance \in (0 - MaxPool)..MaxPool

\* one call of a ledger method on member m, as its callers make it; add_*
\* return nothing, deduct_balance and reduce_utang return whether they acted
LedgerCall(m, method, amount) ==
    /\ \A c \in Procs : pc[c] = "idle"
    /\ LET u == LoadedMember(m)
           row == CASE method = "add_balance" -> AddBalance(u.mem, amount)
                    [] method = "deduct_balance"
                          -> DeductBalance(u, m, amount).mem
                    [] method = "add_utang" -> AddUtang(u, m, amount).mem
                    [] method = "reduce_utang"
                          -> ReduceUtang(u, m, amount).mem
           acted == CASE method = "deduct_balance" -> u.mem.balance >= amount
                      [] method = "reduce_utang"
                            -> u.mem.utang_balance >= amount
                      [] OTHER -> TRUE
       IN  /\ InPool(row)
           /\ members' = [members EXCEPT ![m] = row]
           /\ response' = Response(method, acted,
                                   IF acted THEN "none" ELSE "insufficient")
    /\ UNCHANGED <<stock, txns, stockTx, balanceTx, locked, session, pc, loc,
                   faults>>

\* --------------------------------------------------------------- refill
\* is_admin_user
IsAdminUser(actor) ==
    \/ actor = StaffUser
    \/ actor \in Members /\ Role[actor] = "admin"

RefillRequest(mid, amount, actor) ==
    [member_id |-> mid, amount |-> amount, actor |-> actor]

\* refills on the member ledger
Refills == SelectSeq(balanceTx, LAMBDA r : r.notes.what = "refill")

\* lines 1044-1069: what api_refill_balance checks before it adds
RefillCheck(req) ==
    IF ~IsAdminUser(req.actor) THEN "permission_denied"
    ELSE IF req.member_id = NoMember THEN "member_id_required"
    ELSE IF req.amount.kind = "none" \/
            (req.amount.kind = "num" /\ req.amount.value = 0)
         THEN "amount_required"
    ELSE IF req.amount.kind = "bad" THEN "invalid_amount"
    ELSE IF req.amount.value <= 0 THEN "amount_not_positive"
    ELSE IF req.member_id \notin AllMembers \/ ~members[req.member_id].exists
         THEN "member_not_found"
    ELSE "none"

\* lines 1044-1069: the checks, then Member.objects.get
RefillBegin(c, req) ==
    /\ pc[c] = "idle"
    /\ LET err == RefillCheck(req)
       IN  IF err # "none"
           THEN /\ response' = Response("refill", FALSE, err)
                /\ UNCHANGED <<pc, loc>>
           ELSE /\ Len(Refills) < MaxRefills
                /\ pc' = [pc EXCEPT ![c] = "f_save"]
                /\ loc' = [loc EXCEPT ![c] =
                      [op |-> "refill", member_id |-> req.member_id,
                       member |-> members[req.member_id],
                       amount |-> req.amount.value]]
                /\ response' = NoResponse
    /\ UNCHANGED <<stock, members, txns, stockTx, balanceTx, locked, session,
                   faults>>

\* lines 1071-1091: add_balance saves the loaded row, then the deposit is
\* logged
RefillSave(c) ==
    /\ pc[c] = "f_save"
    /\ LET l == loc[c]
           credited == AddBalance(l.member, l.amount)
       IN  /\ members' = [members EXCEPT ![l.member_id] = credited]
           /\ balanceTx' = Append(balanceTx,
                 BalanceRow(l.member_id, "deposit", l.amount,
                            l.member.balance, credited.balance,
                            l.member.utang_balance, l.member.utang_balance,
                            "refill", 0))
    /\ pc' = [pc EXCEPT ![c] = "idle"]
    /\ loc' = [loc EXCEPT ![c] = NoLoc]
    /\ response' = Response("refill", TRUE, "none")
    /\ UNCHANGED <<stock, txns, stockTx, locked, session, faults>>

\* ----------------------------------------------------------- specification
\* who asks (member_id, logged-in user's member, PIN) for each payment method
CashPayers == {<<NoMember, NoMember>>, <<NoMember, 1>>, <<1, NoMember>>}
CardPayers == {<<1, "good">>, <<1, "bad">>, <<2, "none">>}

\* the requests clients send when served one at a time
SettleRequests ==
    {Request(who[1], items, "cash", "none", cash, who[2]) :
        who \in CashPayers, items \in GoodCarts, cash \in CashInputs}
    \cup
    {Request(who[1], items, pm, who[2], Cash("none", 0), NoMember) :
        who \in CardPayers, items \in GoodCarts, pm \in {"debit", "credit"}}
    \cup
    {Request(NoMember, items, "cash", "none", Cash("none", 0), NoMember) :
        items \in BadCarts}

RefundRequests ==
    {RefundRequest(t, r, a) : t \in 1..MaxTxns, r \in Reasons, a \in Actors}

\* the requests concurrent clients send
RaceCarts == {<<Line(1, 1, "ok")>>, <<Line(1, 1, "ok"), Line(1, 1, "ok")>>,
              <<Line(2, MaxQty, "ok"), Line(1, 1, "ok")>>}
RaceSettleRequests ==
    {Request(NoMember, items, "cash", "none", Cash("none", 0), NoMember) :
        items \in RaceCarts}
    \cup
    {Request(1, items, "debit", "good", Cash("none", 0), NoMember) :
        items \in RaceCarts}

RaceRefundRequests ==
    {RefundRequest(t, <<>>, StaffUser) : t \in 1..MaxTxns}

Step(c, settles, refunds, cards) ==
    \/ \E rfid \in cards : ScanRfid(c, rfid)
    \/ \E req \in settles : SettleBegin(c, req)
    \/ SettleLock(c)
    \/ SettleBody(c)
    \/ \E req \in refunds : RefundBegin(c, req)
    \/ RefundCredit(c)
    \/ RefundRead(c)
    \/ RefundWrite(c)
    \/ RefundMark(c)

\* clients whose requests overlap
Next == \E c \in Procs : Step(c, RaceSettleRequests, RaceRefundRequests, {1})

Spec == Init /\ [][Next]_vars

\* requests served one at a time
NextSeq == Step(1, SettleRequests, RefundRequests, SeqCards)

SpecSeq == Init /\ [][NextSeq]_vars

\* requests that probe what process_payment checks before it touches a row
AuthPayers == {NoMember, UnknownMember, BadMemberId} \cup Members
InvalidCarts ==
    {<<>>, <<Line(2, 1, "missing")>>, <<Line(2, 1, "nan")>>,
     <<Line(2, 0, "ok")>>, <<Line(2, -1, "ok")>>, <<Line(2, 0, "frac")>>,
     <<Line(2, 1, "frac")>>, <<Line(2, QtyCap, "ok")>>,
     <<Line(2, QtyCap + 1, "ok")>>, <<Line(2, 1, "ok"), Line(2, 1, "nan")>>}
AuthRequests ==
    {Request(m, <<Line(2, 1, "ok")>>, pm, pin, Cash("none", 0), NoMember) :
        m \in AuthPayers, pm \in {"debit", "credit", "cash", "gcash"},
        pin \in {"none", "good", "bad"}}
    \cup
    {Request(NoMember, items, "cash", "none", Cash("none", 0), NoMember) :
        items \in InvalidCarts}

NextAuth == Step(1, AuthRequests, RaceRefundRequests, Members \cup {UnknownMember})

SpecAuth == Init /\ [][NextAuth]_vars

\* ----------------------------------------- item and transaction arithmetic
UnitPrices == 1..MaxPrice \cup {Price[p] : p \in Products}
Quantities == {1, 2, 3, QtyCap}
VatRates == {5, 10, 12, 50}      \* settings.VAT_RATE, in percent

\* TransactionItem.save() of one line of a new pending transaction, under a
\* configured VAT rate
SaveItem(price, qty, ratePct) ==
    /\ txns = <<>>
    /\ txns' = <<[NewTransaction(NoMember, "cash") EXCEPT
                    !.items = <<ItemRow(1, price, qty, ratePct)>>]>>
    /\ response' = NoResponse
    /\ UNCHANGED <<stock, members, stockTx, balanceTx, locked, session, pc,
                   loc, faults>>

NextVat ==
    \E price \in UnitPrices, qty \in Quantities, ratePct \in VatRates :
        SaveItem(price, qty, ratePct)

SpecVat == Init /\ [][NextVat]_vars

\* the items of one transaction under one configured rate, then its totals
TotalsPrices == {1, 5, 99, 2000, 5500}
TotalsQuantities == {1, 3}

\* settings.VAT_RATE as configured for the run
Configure(ratePct) ==
    /\ loc[1] = NoLoc /\ txns = <<>>
    /\ loc' = [loc EXCEPT ![1] = [op |-> "settings", vat_rate |-> ratePct]]
    /\ response' = NoResponse
    /\ UNCHANGED <<stock, members, txns, stockTx, balanceTx, locked, session,
                   pc, faults>>

AddItem(price, qty) ==
    /\ loc[1].op = "settings"
    /\ IF txns = <<>>
       THEN txns' = <<[NewTransaction(NoMember, "cash") EXCEPT
                         !.items = <<ItemRow(1, price, qty,
                                             loc[1].vat_rate)>>]>>
       ELSE /\ txns[1].status = "pending"
            /\ Len(txns[1].items) < MaxItems
            /\ txns' = [txns EXCEPT ![1].items =
                          Append(@, ItemRow(1, price, qty, loc[1].vat_rate))]
    /\ response' = NoResponse
    /\ UNCHANGED <<stock, members, stockTx, balanceTx, locked, session, pc,
                   loc, faults>>

Complete ==
    /\ txns # <<>> /\ txns[1].status = "pending"
    /\ txns' = [CalculateTotals([txns |-> txns]).txns EXCEPT
                   ![1].status = "completed"]
    /\ response' = NoResponse
    /\ UNCHANGED <<stock, members, stockTx, balanceTx, locked, session, pc,
                   loc, faults>>

NextTotals ==
    \/ \E ratePct \in VatRates : Configure(ratePct)
    \/ \E price \in TotalsPrices, qty \in TotalsQuantities : AddItem(price, qty)
    \/ Complete

SpecTotals == Init /\ [][NextTotals]_vars

\* requests served one at a time by a store whose writes may fail
NextFault ==
    \/ Step(1, RaceSettleRequests, RaceRefundRequests, {1})
    \/ RefundFault(1)

SpecFault == Init /\ [][NextFault]_vars

\* settlements, refunds and refills of one member whose requests overlap
RefillAmount == 1000
RefillSettleRequests ==
    {Request(1, <<Line(2, 1, "ok")>>, pm, "good", Cash("none", 0), NoMember) :
        pm \in {"debit", "credit"}}
RefillRequests ==
    {RefillRequest(1, Cash("num", RefillAmount), StaffUser),
     RefillRequest(1, Cash("num", RefillAmount), PlainUser),
     RefillRequest(1, Cash("num", RefillAmount), 2),
     RefillRequest(NoMember, Cash("num", RefillAmount), StaffUser),
     RefillRequest(UnknownMember, Cash("num", RefillAmount), StaffUser),
     RefillRequest(1, Cash("none", 0), StaffUser),
     RefillRequest(1, Cash("num", 0), StaffUser),
     RefillRequest(1, Cash("bad", 0), StaffUser),
     RefillRequest(1, Cash("num", -RefillAmount), StaffUser)}

\* client 1 is the kiosk, client 2 the back office
NextRefill ==
    \/ ScanRfid(1, 1)
    \/ \E req \in RefillSettleRequests : SettleBegin(1, req)
    \/ SettleLock(1)
    \/ SettleBody(1)
    \/ \E req \in RaceRefundRequests : RefundBegin(2, req)
    \/ RefundCredit(2)
    \/ RefundRead(2)
    \/ RefundWrite(2)
    \/ RefundMark(2)
    \/ \E req \in RefillRequests : RefillBegin(2, req)
    \/ RefillSave(2)

SpecRefill == Init /\ [][NextRefill]_vars

\* sales refunded with reasons of every shape
MarkerReasons ==
    {<<>>, <<" ">>, Damaged, <<" ">> \o Damaged \o <<" ", "\n">>,
     <<"n", "o", ".", " ", "r", "e", "t", "u", "r", "n">>}
MarkerRefundRequests ==
    {RefundRequest(t, r, StaffUser) : t \in 1..MaxTxns, r \in MarkerReasons}

NextMarker == Step(1, RaceSettleRequests, MarkerRefundRequests, {1})

SpecMarker == Init /\ [][NextMarker]_vars

\* ------------------------------------------------------ product catalogue
\* Product rows as the back office edits them: name, barcode, price and
\* is_active of each product (stock_quantity is the variable stock); the
\* catalogue of the run is carried in the back-office client's slot
InitCatalogue ==
    [op |-> "catalogue",
     name |-> [p \in Products |-> IF p = 1 THEN "Rice 1kg" ELSE "Coffee"],
     barcode |-> [p \in Products |-> IF p = 1 THEN "4800011" ELSE "4800022"],
     price |-> Price,
     is_active |-> [p \in Products |-> TRUE]]

Catalogue == IF loc[2].op = "catalogue" THEN loc[2] ELSE InitCatalogue

\* the edit form filled with the product's current values
ProductForm(p) ==
    [id |-> p, name |-> Catalogue.name[p], barcode |-> Catalogue.barcode[p],
     price |-> Catalogue.price[p], stock_quantity |-> stock[p],
     is_active |-> Catalogue.is_active[p]]

\* the forms an administrator submits: one field changed at a time
ProductEdits(p) ==
    {[ProductForm(p) EXCEPT !.name = "Rice 2kg"],
     [ProductForm(p) EXCEPT !.name = ""],
     [ProductForm(p) EXCEPT !.barcode = "4800033"],
     [ProductForm(p) EXCEPT !.barcode = Catalogue.barcode[3 - p]],
     [ProductForm(p) EXCEPT !.price = 2500],
     [ProductForm(p) EXCEPT !.stock_quantity = MaxQty],
     [ProductForm(p) EXCEPT !.is_active = ~@]}

\* the checks of api_update_product, in the order the view makes them
UpdateCheck(form, actor) ==
    IF ~IsAdminUser(actor) THEN "permission_denied"
    ELSE IF form.name = "" THEN "name_required"
    ELSE IF form.barcode = "" THEN "barcode_required"
    ELSE IF \E q \in Products \ {form.id} :
               Catalogue.barcode[q] = form.barcode THEN "barcode_taken"
    ELSE "none"

\* the sale rows rewritten from the product's new name, barcode and price
ItemsAfterEdit_Cascade(form) ==
    [t \in DOMAIN txns |->
       [txns[t] EXCEPT !.items =
          [i \in DOMAIN txns[t].items |->
             LET it == txns[t].items[i]
             IN  IF it.product = form.id
                 THEN [it EXCEPT !.product_name = form.name,
                                 !.product_barcode = form.barcode,
                                 !.unit_price = form.price,
                                 !.total_price = form.price * it.quantity]
                 ELSE it]]]

\* product.save() writes the Product row only: the sale rows stay
ItemsAfterEdit(form) == txns

\* api_update_product
UpdateProduct(form, actor) ==
    /\ pc[2] = "idle"
    /\ LET err == UpdateCheck(form, actor)
       IN  IF err # "none"
           THEN /\ response' = Response("update_product", FALSE, err)
                /\ UNCHANGED <<stock, txns, loc>>
           ELSE /\ loc' = [loc EXCEPT ![2] =
                     [Catalogue EXCEPT !.name[form.id] = form.name,
                                       !.barcode[form.id] = form.barcode,
                                       !.price[form.id] = form.price,
                                       !.is_active[form.id] = form.is_active]]
                /\ stock' = [stock EXCEPT ![form.id] = form.stock_quantity]
                /\ txns' = ItemsAfterEdit(form)
                /\ response' = Response("update_product", TRUE, "none")
    /\ UNCHANGED <<members, stockTx, balanceTx, locked, session, pc, faults>>

\* TransactionItem.objects.create(product=product,
\* product_name=product.name, product_barcode=product.barcode,
\* unit_price=product.price, quantity=...) and TransactionItem.save
SnapshotItem(p, qty) ==
    LET row == ItemRow(p, Catalogue.price[p], qty, VatRatePct)
    IN  [product |-> p, quantity |-> qty,
         product_name |-> Catalogue.name[p],
         product_barcode |-> Catalogue.barcode[p],
         unit_price |-> row.unit_price, total_price |-> row.total_price,
         vat_amount |-> row.vat_amount, vatable_sale |-> row.vatable_sale]

\* a cash sale of one line to member mid at the catalogue's current values:
\* the product is found only while active, the stock is checked, the item
\* row is created, the totals computed and the sale completed
SellAtCatalogue(mid, p, qty) ==
    /\ pc[1] = "idle"
    /\ Len(txns) < MaxTxns
    /\ IF ~Catalogue.is_active[p]
       THEN /\ response' = Response("settle", FALSE, "missing_product")
            /\ UNCHANGED <<stock, txns, stockTx>>
       ELSE IF stock[p] < qty
       THEN /\ response' = Response("settle", FALSE, "insufficient_stock")
            /\ UNCHANGED <<stock, txns, stockTx>>
       ELSE LET sale == [NewTransaction(mid, "cash") EXCEPT
                            !.items = <<SnapshotItem(p, qty)>>,
                            !.transaction_number = Len(txns) + 1]
                u == ReduceStock(
                       CalculateTotals([txns |-> Append(txns, sale),
                                        pmap |-> stock, stock |-> stock,
                                        stockTx |-> stockTx]), p, qty)
            IN  /\ txns' = [u.txns EXCEPT
                              ![Len(u.txns)].status = "completed",
                              ![Len(u.txns)].amount_paid =
                                  u.txns[Len(u.txns)].total_amount]
                /\ stock' = u.stock
                /\ stockTx' = u.stockTx
                /\ response' = Response("settle", TRUE, "none")
    /\ UNCHANGED <<members, balanceTx, locked, session, pc, loc, faults>>

\* the kiosk sells and refunds while the back office edits a product
EditedProduct == 1
NextCatalogue ==
    \/ \E p \in Products, qty \in 1..MaxQty : SellAtCatalogue(1, p, qty)
    \/ \E form \in ProductEdits(EditedProduct) :
          UpdateProduct(form, StaffUser)
    \/ UpdateProduct(ProductForm(EditedProduct), PlainUser)
    \/ \E req \in RaceRefundRequests : RefundBegin(1, req)
    \/ RefundCredit(1)
    \/ RefundRead(1)
    \/ RefundWrite(1)
    \/ RefundMark(1)

SpecCatalogue == Init /\ [][NextCatalogue]_vars

\* the ledger methods called with amounts of either sign
LedgerMethods == {"add_balance", "deduct_balance", "add_utang", "reduce_utang"}
LedgerAmounts == {-1000, 0, 1000}

NextLedger ==
    \E method \in LedgerMethods, amount \in LedgerAmounts :
        LedgerCall(1, method, amount)

SpecLedger == Init /\ [][NextLedger]_vars

\* one kiosk sending carts again and again, the transaction number drawn
\* by each settlement
NumberCarts == {<<Line(2, 1, "ok")>>, <<Line(1, 1, "ok")>>,
                <<Line(2, 1, "ok"), Line(1, 1, "ok")>>}
NumberSettleRequests ==
    {Request(NoMember, items, "cash", "none", cash, NoMember) :
        items \in NumberCarts, cash \in {Cash("none", 0), Cash("num", CashHigh)}}
    \cup
    {Request(1, items, "debit", "good", Cash("none", 0), NoMember) :
        items \in NumberCarts}

NextNumber ==
    \/ ScanRfid(1, 1)
    \/ \E req \in NumberSettleRequests : SettleBegin(1, req)
    \/ SettleLock(1)
    \/ \E n \in TxnNumbers : SettleNumbered(1, n)

SpecNumber == Init /\ [][NextNumber]_vars

\* one kiosk whose settlement is followed from its return to the commit and
\* the saving of the session, by a store whose commit may fail
SessionSettleRequests ==
    RaceSettleRequests
    \cup {Request(1, <<Line(2, 1, "ok")>>, "credit", pin, Cash("none", 0),
                  NoMember) : pin \in {"good", "bad"}}

NextSession ==
    \/ ScanRfid(1, 1)
    \/ \E req \in SessionSettleRequests : SettleBegin(1, req)
    \/ SettleLock(1)
    \/ SettleRun(1)
    \/ SettleCommit(1)
    \/ SettleCommitFault(1)
    \/ SessionSave(1)

SpecSession == Init /\ [][NextSession]_vars

\* two kiosks whose carts list the same two products in opposite orders,
\* with the row locks of the settlement taken one at a time
LockCarts == {<<Line(1, 1, "ok"), Line(2, 1, "ok")>>,
              <<Line(2, 1, "ok"), Line(1, 1, "ok")>>}
LockSettleRequests ==
    {Request(NoMember, items, "cash", "none", Cash("none", 0), NoMember) :
        items \in LockCarts}
    \cup
    {Request(1, items, "debit", "good", Cash("none", 0), NoMember) :
        items \in LockCarts}

NextLock ==
    \E c \in Procs :
        \/ ScanRfid(c, 1)
        \/ \E req \in LockSettleRequests : SettleBegin(c, req)
        \/ SettleLockRow(c)
        \/ SettleBody(c)

SpecLock == Init /\ [][NextLock]_vars

\* a request handler that can go on does go on: the store grants a row lock
\* to the requests waiting for it in turn, so a lock query that can take its
\* row again and again does take it (strong fairness), and the unit of work,
\* which can always run once the rows are held, does not stay at its start
\* for ever (weak fairness of SettleBody)
SpecLockFair ==
    /\ SpecLock
    /\ \A c \in Procs : SF_vars(SettleLockRow(c)) /\ []<>(pc[c] # "s_body")

\* ================================================================== claims
RefundPcs == {"r_credit", "r_read", "r_write", "r_mark"}
SettlePcs == {"s_lock", "s_body"}
Idle == \A c \in Procs : pc[c] = "idle"
TxnIds == 1..Len(txns)

\* units of product p a cart asks for, over all its lines
Requested(items, p) ==
    SeqSum([i \in 1..Len(items) |->
              IF items[i].product_id = p THEN items[i].quantity ELSE 0])

\* units of product p on the items of transaction t
ItemUnits(t, p) ==
    SeqSum([i \in 1..Len(txns[t].items) |->
              IF txns[t].items[i].product = p
              THEN txns[t].items[i].quantity ELSE 0])

\* units of product p sold by transactions that are still completed
SoldUnits(p) ==
    SeqSum([t \in 1..Len(txns) |->
              IF txns[t].status = "completed" THEN ItemUnits(t, p) ELSE 0])

\* BalanceTransaction rows that record a refund of transaction t
RefundRows(t) ==
    {i \in 1..Len(balanceTx) :
        balanceTx[i].notes = [what |-> "refund", txn |-> t]}

\* C1: a settlement that returns a failure leaves stock, members and the
\* transaction and ledger tables exactly as they were before the call (with
\* requests served one at a time, the tables before the call are the tables
\* before the step that returns).
C1_SettlementAtomic ==
    [][(response'.op = "settle" /\ ~response'.ok) => db' = db]_vars

\* C2: when no settlement is in flight every stored transaction is completed
\* or cancelled, never pending.
C2_NoPendingAtRest ==
    (\A c \in Procs : pc[c] \notin SettlePcs)
        => \A t \in TxnIds : txns[t].status \in {"completed", "cancelled"}

\* C3: under every interleaving of settlements and refunds no product's stock
\* is negative.
C3_NoNegativeStock == \A p \in Products : stock[p] >= 0

\* a refund about to write back product stock 0 while a settlement holds that
\* product's row lock
C3_Witness ==
    \E c, d \in Procs :
        /\ pc[c] = "r_write" /\ pc[d] = "s_body"
        /\ LET p == loc[c].txn.items[loc[c].i].product
           IN  locked[p] = d /\ stock[p] = 0

\* C4: a settlement asking for one unit of a product succeeds exactly when
\* the stored stock holds a unit at the moment it commits, taking it, and
\* otherwise fails with insufficient stock and leaves the stock alone; so of
\* two settlements racing for the last unit one succeeds, the other fails
\* and the stock ends at 0.
C4_LastUnit ==
    [][\A c \in Procs : \A p \in Products :
          (pc[c] = "s_body" /\ pc'[c] = "idle"
           /\ loc[c].items = <<Line(p, 1, "ok")>>)
          => IF stock[p] >= 1
             THEN response'.ok /\ stock'[p] = stock[p] - 1
             ELSE response'.err = "insufficient_stock" /\ stock' = stock]_vars

\* the winner of the race has just sold the single unit of product 1 while
\* the other settlement, begun before that, still waits for the row lock
C4_Witness ==
    /\ response = Response("settle", TRUE, "none")
    /\ InitStock[1] = 1 /\ stock[1] = 0
    /\ \E c \in Procs :
          pc[c] = "s_lock" /\ loc[c].items = <<Line(1, 1, "ok")>>

\* C5: with no request in flight, every product's stock is its initial
\* stock minus the units sold by the transactions that are still completed.
C5_StockConservation ==
    Idle => \A p \in Products : stock[p] = InitStock[p] - SoldUnits(p)

\* C6: a cart that asks, over all its lines, for more units of a product
\* than are in stock is refused as insufficient stock and no stock changes.
C6_CartTotalChecked ==
    [][\A c \in Procs :
          (pc[c] = "s_body" /\ pc'[c] = "idle"
           /\ \E p \in Products : Requested(loc[c].items, p) > stock[p])
          => response'.err = "insufficient_stock" /\ stock' = stock]_vars

\* C7: a refund of a transaction that is not completed (already cancelled)
\* never gets past the eligibility check, and a refused refund changes no
\* row.
C7_SecondRefundRefused ==
    [][/\ \A c \in Procs :
             (pc[c] = "idle" /\ pc'[c] = "r_credit")
                => txns[loc'[c].tid].status = "completed"
       /\ (response'.op = "refund" /\ ~response'.ok) => db' = db]_vars

\* every transaction there can be is cancelled and a refund was just refused
C7_Witness ==
    /\ response = Response("refund", FALSE, "not_eligible")
    /\ Len(txns) = MaxTxns
    /\ \A t \in TxnIds : txns[t].status = "cancelled"

\* C8: under every interleaving of two refunds of one transaction the owner
\* is credited at most once and each item is restocked at most once: no
\* refund credits a transaction that already has its refund row, and none
\* restocks an item of a transaction that is already cancelled or that the
\* other refund has already restocked.
C8_RefundOnce ==
    [][\A c \in Procs :
          /\ (pc[c] = "r_credit" /\ pc'[c] # "r_credit"
              /\ loc[c].member_id # NoMember)
                => RefundRows(loc[c].tid) = {}
          /\ (pc[c] = "r_write" /\ pc'[c] # "r_write")
                => /\ txns[loc[c].tid].status = "completed"
                   /\ \A d \in Procs \ {c} :
                         ~(pc[d] \in RefundPcs /\ loc[d].tid = loc[c].tid
                           /\ loc[d].i > loc[c].i)]_vars

C10_RefundAtomic ==
    (\A c \in Procs : pc[c] \notin RefundPcs)
        => \A t \in TxnIds : RefundRows(t) # {} => txns[t].status = "cancelled"

\* the identities the refund contract lets act on transaction row t
MayRefund(actor, t) ==
    \/ actor = StaffUser
    \/ actor \in Members /\ Role[actor] \in {"cashier", "admin"}
    \/ actor \in Members /\ t.member = actor

\* C11: a refund gets past its checks, and succeeds, only for a cashier,
\* admin or staff identity or for the member who owns the transaction; a
\* refund refused for lack of permission or ownership changes no row.
C11_RefundAuthorized ==
    [][/\ \A c \in Procs :
             /\ (pc[c] = "idle" /\ pc'[c] = "r_credit")
                   => MayRefund(loc'[c].actor, txns[loc'[c].tid])
             /\ (pc[c] = "r_mark" /\ pc'[c] = "idle" /\ response'.ok)
                   => MayRefund(loc[c].actor, loc[c].txn)
       /\ (response'.op = "refund"
           /\ response'.err \in {"permission_denied", "not_owner"})
             => db' = db]_vars

\* an ordinary member was just refused the refund of a guest sale: every
\* stored transaction is a completed sale without a member
C11_Witness ==
    /\ response = Response("refund", FALSE, "not_owner")
    /\ Len(txns) >= 1
    /\ \A t \in TxnIds :
          txns[t].member = NoMember /\ txns[t].status = "completed"

\* the Transaction row a settlement step has just stored
NewRow == txns'[Len(txns')]

\* client c's settlement returns success in this step, paying by method pm
Settles(c, pm) ==
    /\ pc[c] = "s_body" /\ pc'[c] = "idle"
    /\ response' = Response("settle", TRUE, "none")
    /\ loc[c].payment_method = pm

\* C12: a debit settlement for a member whose balance b at the call is
\* below the cart total t (0 <= b < t) stores amount_from_balance = b and
\* amount_to_utang = t - b, leaves the balance at 0, grows the utang by
\* exactly t - b and stores payment_method 'credit'.
C12_SplitDebit ==
    [][\A c \in Procs :
          (Settles(c, "debit") /\ loc[c].member_id # NoMember)
          => LET m == loc[c].member_id
                 b == members[m].balance
                 t == NewRow.total_amount
             IN  (0 <= b /\ b < t)
                 => /\ NewRow.amount_from_balance = b
                    /\ NewRow.amount_to_utang = t - b
                    /\ members'[m].balance = 0
                    /\ members'[m].utang_balance
                          = members[m].utang_balance + (t - b)
                    /\ NewRow.payment_method = "credit"]_vars

\* C13: a debit settlement for a member whose balance b at the call covers
\* the cart total t (b >= t) leaves the balance at b - t, stores
\* amount_from_balance = t and amount_to_utang = 0, leaves the utang alone
\* and keeps payment_method 'debit'.
C13_FullDebit ==
    [][\A c \in Procs :
          (Settles(c, "debit") /\ loc[c].member_id # NoMember)
          => LET m == loc[c].member_id
                 b == members[m].balance
                 t == NewRow.total_amount
             IN  b >= t
                 => /\ members'[m].balance = b - t
                    /\ NewRow.amount_from_balance = t
                    /\ NewRow.amount_to_utang = 0
                    /\ members'[m].utang_balance = members[m].utang_balance
                    /\ NewRow.payment_method = "debit"]_vars

\* C14: a credit settlement is never refused on account of the member's
\* balance or utang (only a stock failure can stop it); it grows the
\* member's utang by exactly the cart total and stores amount_to_utang =
\* total_amount and amount_from_balance = 0.
C14_CreditSettlement ==
    [][\A c \in Procs :
          (pc[c] = "s_body" /\ pc'[c] = "idle"
           /\ loc[c].payment_method = "credit" /\ loc[c].member_id # NoMember)
          => IF response'.ok
             THEN LET m == loc[c].member_id
                  IN  /\ members'[m].utang_balance
                            = members[m].utang_balance + NewRow.total_amount
                      /\ NewRow.amount_to_utang = NewRow.total_amount
                      /\ NewRow.amount_from_balance = 0
             ELSE response'.err \in {"invalid_product", "insufficient_stock",
                                     "stock_exception"}]_vars

\* a member already in utang has just bought on credit again
C14_Witness ==
    /\ response = Response("settle", TRUE, "none")
    /\ Len(txns) >= 1
    /\ LET t == txns[Len(txns)]
       IN  /\ t.payment_method = "credit" /\ t.member # NoMember
           /\ t.amount_from_balance = 0
           /\ t.amount_to_utang = t.total_amount
           /\ members[t.member].utang_balance > t.total_amount

StockErrors == {"invalid_product", "insufficient_stock", "stock_exception"}

\* C15: a cash settlement whose stock is in order completes with amount_paid
\* = total and no change when no cash amount is given, completes with
\* amount_paid = cash amount and change = cash amount - total when the
\* amount given covers the total, and fails with the insufficient-cash
\* error when the amount given is below the total.
C15_CashSettlement ==
    [][\A c \in Procs :
          (pc[c] = "s_body" /\ pc'[c] = "idle"
           /\ loc[c].payment_method = "cash"
           /\ response'.err \notin StockErrors)
          => LET cash == loc[c].cash_amount
                 t == NewRow.total_amount
             IN  /\ cash.kind = "none"
                       => /\ response'.ok /\ NewRow.status = "completed"
                          /\ NewRow.amount_paid = t
                          /\ ChangeAmount(NewRow) = 0
                 /\ (cash.kind = "num" /\ cash.value >= t)
                       => /\ response'.ok /\ NewRow.status = "completed"
                          /\ NewRow.amount_paid = cash.value
                          /\ ChangeAmount(NewRow) = cash.value - t
                 /\ (cash.kind = "num" /\ cash.value < t)
                       => response'
                            = Response("settle", FALSE, "insufficient_cash")]_vars

\* a cash sale paid with more than its total has just completed, and an
\* earlier cash sale was paid exactly
C15_Witness ==
    /\ response = Response("settle", TRUE, "none")
    /\ Len(txns) = 2
    /\ txns[2].payment_method = "cash" /\ txns[2].status = "completed"
    /\ ChangeAmount(txns[2]) > 0
    /\ txns[1].payment_method = "cash" /\ txns[1].status = "completed"
    /\ txns[1].amount_paid = txns[1].total_amount

CardMethods == {"debit", "credit"}

\* C16: a debit or credit settlement gets past its checks, and succeeds,
\* only for a supplied member to whom the kiosk session is bound (by an
\* earlier scan of that member's card); a settlement turned away before the
\* cart is processed changes no row.
C16_SessionBound ==
    [][/\ \A c \in Procs :
             /\ (pc[c] = "idle" /\ pc'[c] = "s_lock"
                 /\ loc'[c].payment_method \in CardMethods)
                   => /\ loc'[c].member_id \in Members
                      /\ session[c] = loc'[c].member_id
             /\ (pc[c] = "s_body" /\ pc'[c] = "idle" /\ response'.ok
                 /\ loc[c].payment_method \in CardMethods)
                   => /\ loc[c].member_id \in Members
                      /\ session[c] = loc[c].member_id
       /\ (response'.op = "settle" /\ pc' = pc)
             => (~response'.ok /\ db' = db)]_vars

\* a card payment was just refused because the session is bound to another
\* member's card
C16_Witness ==
    /\ response = Response("settle", FALSE, "auth_required")
    /\ \E c \in Procs : session[c] \in Members

\* C17: a debit or credit settlement for a member who is neither cashier
\* nor admin gets past its checks, and succeeds, only with a PIN that
\* verifies against the member's stored hash, so never for a member without
\* a stored PIN; the member of a refusal over the PIN (the one the session
\* is bound to) is never a cashier or admin.
C17_PinVerified ==
    [][/\ \A c \in Procs :
             /\ (pc[c] = "idle" /\ pc'[c] = "s_lock"
                 /\ loc'[c].payment_method \in CardMethods
                 /\ Role[loc'[c].member_id] \notin {"cashier", "admin"})
                   => HasPin[loc'[c].member_id] /\ loc'[c].pin = "good"
             /\ (pc[c] = "s_body" /\ pc'[c] = "idle" /\ response'.ok
                 /\ loc[c].payment_method \in CardMethods
                 /\ Role[loc[c].member_id] \notin {"cashier", "admin"})
                   => HasPin[loc[c].member_id] /\ loc[c].pin = "good"
       /\ response'.err \in {"pin_required", "invalid_pin"}
             => \E c \in Procs :
                   /\ session[c] \in Members
                   /\ Role[session[c]] \notin {"cashier", "admin"}]_vars

\* an ordinary member without a stored PIN was just refused, after a cashier
\* paid by card without one
C17_Witness ==
    /\ response = Response("settle", FALSE, "invalid_pin")
    /\ \E c \in Procs :
          /\ session[c] \in Members
          /\ ~HasPin[session[c]] /\ Role[session[c]] = "member"
    /\ \E t \in TxnIds :
          /\ txns[t].status = "completed" /\ txns[t].member \in Members
          /\ Role[txns[t].member] = "cashier" /\ ~HasPin[txns[t].member]
          /\ txns[t].amount_from_balance > 0

\* C18: every stored line item satisfies vat_amount + vatable_sale =
\* total_price, for any two-decimal unit price, any quantity in 1..1000 and
\* any configured VAT rate.
C18_ItemVatLaw ==
    \A t \in TxnIds : \A i \in 1..Len(txns[t].items) :
        LET it == txns[t].items[i]
        IN  it.vat_amount + it.vatable_sale = it.total_price

\* sum of one column over the items of transaction row t
ItemsTotal(t, col) ==
    SeqSum([i \in 1..Len(t.items) |->
              IF col = "total_price" THEN t.items[i].total_price
              ELSE IF col = "vat_amount" THEN t.items[i].vat_amount
              ELSE t.items[i].vatable_sale])

\* C19: every completed transaction, whatever its number of items, has
\* total_amount = sum of its items' total_price = vat_amount + vatable_sale,
\* its subtotal, vat_amount and vatable_sale being the sums of the rounded
\* per-item values.
C19_AggregateLaw ==
    \A t \in TxnIds :
        txns[t].status = "completed"
        => /\ txns[t].total_amount = ItemsTotal(txns[t], "total_price")
           /\ txns[t].total_amount = txns[t].vat_amount + txns[t].vatable_sale
           /\ txns[t].subtotal = ItemsTotal(txns[t], "total_price")
           /\ txns[t].vat_amount = ItemsTotal(txns[t], "vat_amount")
           /\ txns[t].vatable_sale = ItemsTotal(txns[t], "vatable_sale")

\* a request the validation rules admit: a non-empty cart, a known payment
\* method, every line with its product and an integer quantity in 1..1000
WellFormed(items, pm) ==
    /\ items # <<>>
    /\ pm \in {"cash", "debit", "credit"}
    /\ \A i \in 1..Len(items) :
          /\ items[i].kind = "ok"
          /\ items[i].quantity \in 1..QtyCap

\* C20: only a well-formed request (items not empty, payment method cash,
\* debit or credit, every line with product and an integer quantity in
\* 1..1000) gets past validation; a request refused by validation changes no
\* row.
C20_ValidationFirst ==
    [][/\ \A c \in Procs :
             (pc[c] = "idle" /\ pc'[c] = "s_lock")
                => WellFormed(loc'[c].body, loc'[c].payment_method)
       /\ (response'.op = "settle"
           /\ response'.err \in {"no_items", "invalid_payment_method",
                                 "invalid_item", "invalid_quantity",
                                 "quantity_not_positive", "quantity_over_cap"})
             => db' = db]_vars

\* C21: no transaction row is ever deleted; a stored row changes status only
\* from pending to completed or from completed to cancelled; a cancelled row
\* is never written again, and a refund cancels only a row that is still
\* completed, so each row is cancelled at most once.
C21_Lifecycle ==
    [][/\ Len(txns') >= Len(txns)
       /\ \A t \in TxnIds :
             /\ txns'[t].status # txns[t].status
                   => <<txns[t].status, txns'[t].status>>
                         \in {<<"pending", "completed">>,
                              <<"completed", "cancelled">>}
             /\ txns[t].status = "cancelled" => txns'[t] = txns[t]
       /\ \A c \in Procs :
             (pc[c] = "r_mark" /\ pc'[c] = "idle" /\ response'.ok)
                => txns[loc[c].tid].status = "completed"]_vars

\* the StockTransaction rows of product p, oldest first
MovementsOf(p) == SelectSeq(stockTx, LAMBDA r : r.product = p)

\* C22: every stock change of a sale or of a refund restock is on the stock
\* ledger ('out' rows lowering, 'in' rows raising the stock by their
\* quantity), so with no request in flight a product's stock equals the
\* stock_after of its latest ledger row (its initial stock if it has none).
C22_StockAuditTrail ==
    /\ \A i \in 1..Len(stockTx) :
          /\ stockTx[i].transaction_type \in {"in", "out"}
          /\ stockTx[i].stock_after - stockTx[i].stock_before
                = IF stockTx[i].transaction_type = "out"
                  THEN 0 - stockTx[i].quantity ELSE stockTx[i].quantity
    /\ Idle => \A p \in Products :
                  stock[p] = IF MovementsOf(p) = <<>> THEN InitStock[p]
                             ELSE MovementsOf(p)[Len(MovementsOf(p))].stock_after

\* the BalanceTransaction rows a step appends for member m, in order
NewRowsOf(m) ==
    SelectSeq(SubSeq(balanceTx', Len(balanceTx) + 1, Len(balanceTx')),
              LAMBDA r : r.member = m)

\* C23: every change a step makes to a member's balance or utang_balance is
\* on the member ledger: the step appends one BalanceTransaction per change
\* of that member, each row's balance_before / balance_after and
\* utang_before / utang_after being the member's values just before and
\* just after its change, so the rows lead from the old values to the new.
C23_MemberAuditTrail ==
    [][\A m \in AllMembers :
          (members'[m].balance # members[m].balance
           \/ members'[m].utang_balance # members[m].utang_balance)
          => LET rows == NewRowsOf(m)
                 n == Len(rows)
             IN  /\ n >= 1
                 /\ rows[1].balance_before = members[m].balance
                 /\ rows[1].utang_before = members[m].utang_balance
                 /\ \A i \in 2..n :
                       /\ rows[i].balance_before = rows[i - 1].balance_after
                       /\ rows[i].utang_before = rows[i - 1].utang_after
                 /\ rows[n].balance_after = members'[m].balance
                 /\ rows[n].utang_after = members'[m].utang_balance]_vars

C26_PoolsNonNegative ==
    \A m \in Members :
        members[m].balance >= 0 /\ members[m].utang_balance >= 0

\* C25: no step lowers a member's total_patronage; a refund leaves it as
\* the refunded sale left it.
C25_PatronageMonotone ==
    [][\A m \in Members :
          members'[m].total_patronage >= members[m].total_patronage]_vars

\* units on the items of a transaction row
UnitsOf(t) == SeqSum([i \in 1..Len(t.items) |-> t.items[i].quantity])

\* the member row m holds after a change of dbal, du, dp to the row on file
Moved(m, dbal, du, dp) ==
    members'[m] = [members[m] EXCEPT !.balance = @ + dbal,
                                     !.utang_balance = @ + du,
                                     !.total_patronage = @ + dp]

\* C27: whatever else is in flight, every committed change to a member is
\* applied to the member's row as it is on file at that moment: a refill
\* adds its amount to the balance, a refund credit adds the refunded total,
\* and a successful settlement takes its fee and amount_from_balance off the
\* balance, adds amount_to_utang to the utang and patronage_amount to
\* total_patronage; no other column of the row moves, so the final values
\* are the initial ones plus all credits minus all debits.
C27_NoLostUpdate ==
    [][\A c \in Procs :
          /\ (pc[c] = "f_save" /\ pc'[c] = "idle")
                => Moved(loc[c].member_id, loc[c].amount, 0, 0)
          /\ (pc[c] = "r_credit" /\ pc'[c] # "r_credit"
              /\ loc[c].member_id # NoMember)
                => Moved(loc[c].member_id, loc[c].txn.total_amount, 0, 0)
          /\ (pc[c] = "s_body" /\ pc'[c] = "idle" /\ response'.ok
              /\ loc[c].member_id # NoMember)
                => Moved(loc[c].member_id,
                         0 - UnitsOf(NewRow) * ProductFee
                           - NewRow.amount_from_balance,
                         NewRow.amount_to_utang,
                         NewRow.patronage_amount)]_vars

\* units of product p on the items of a transaction row
RowUnits(t, p) ==
    SeqSum([i \in 1..Len(t.items) |->
              IF t.items[i].product = p THEN t.items[i].quantity ELSE 0])

\* C28: with a settlement and a refund of the same product in flight, the
\* refund's restock of an item adds the item's quantity to the stock on
\* file at that moment and a successful settlement takes the units it sells
\* off the stock on file, so the final stock is initial - q + r.
C28_RestockDiscipline ==
    [][\A c \in Procs :
          /\ pc[c] = "r_write" /\ pc'[c] # "r_write"
                => LET it == loc[c].txn.items[loc[c].i]
                   IN  stock' = [stock EXCEPT ![it.product] = @ + it.quantity]
          /\ (pc[c] = "s_body" /\ pc'[c] = "idle" /\ response'.ok)
                => \A p \in Products :
                      stock'[p] = stock[p] - RowUnits(NewRow, p)]_vars

\* client c waits for a row that client d holds
WaitsFor(c, d) ==
    /\ pc[c] = "s_lock" /\ RowsToLock(c) # {}
    /\ locked[NextRow(c)] = d

SameCart(t, l) ==
    /\ t.member = l.member_id
    /\ Len(t.items) = Len(l.items)
    /\ \A i \in 1..Len(t.items) :
          /\ t.items[i].product = l.items[i].product_id
          /\ t.items[i].quantity = l.items[i].quantity

\* C31: a settlement of the cart the last completed transaction was made
\* from, with stock for every line, is served like the first: it succeeds,
\* adds a transaction whose number differs from every number on file and
\* takes the cart's units off the stock a second time.
C31_NotIdempotent ==
    [][\A c \in Procs :
          (/\ pc[c] = "s_body" /\ pc'[c] = "idle"
           /\ txns # <<>> /\ txns[Len(txns)].status = "completed"
           /\ SameCart(txns[Len(txns)], loc[c])
           /\ \A p \in Products : Requested(loc[c].items, p) <= stock[p])
          => /\ response'.ok
             /\ Len(txns') = Len(txns) + 1
             /\ NewRow.transaction_number \notin NumbersOnFile
             /\ \A p \in Products :
                   stock'[p] = stock[p] - Requested(loc[c].items, p)]_vars

\* C32: a ledger method called with a zero or negative amount is refused
\* and leaves the member's balance and utang_balance as they were: a call
\* is accepted exactly when it moves money, and then it moves the balance or
\* the utang in the method's own direction and nothing else.
C32_PositiveAmounts ==
    [][response'.op \in LedgerMethods
          => /\ response'.ok <=> members' # members
             /\ \A m \in Members :
                   LET dbal == members'[m].balance - members[m].balance
                       dut == members'[m].utang_balance
                                 - members[m].utang_balance
                   IN  CASE response'.op = "add_balance" -> dbal >= 0 /\ dut = 0
                         [] response'.op = "deduct_balance"
                               -> dbal <= 0 /\ dut = 0
                         [] response'.op = "add_utang" -> dbal = 0 /\ dut >= 0
                         [] response'.op = "reduce_utang"
                               -> dbal = 0 /\ dut <= 0]_vars

\* text is the reason raw without the whitespace around it
IsCoreOf(text, raw) ==
    \E i \in 1..(Len(raw) + 1), j \in 0..Len(raw) :
        /\ text = SubSeq(raw, i, j)
        /\ \A k \in 1..(i - 1) : raw[k] \in Whitespace
        /\ \A k \in (j + 1)..Len(raw) : raw[k] \in Whitespace
        /\ text # <<>> => text[1] \notin Whitespace
                          /\ text[Len(text)] \notin Whitespace

\* C33: a successful refund leaves the transaction with notes 'Refunded'
\* when no reason (nothing but whitespace) came with the request and
\* 'Refunded. ' followed by the reason otherwise, and the dashboard's refund
\* predicate (cancelled, notes containing 'Refund') recognises the row
\* whatever the reason was.
C33_RefundMarker ==
    [][\A c \in Procs :
          (pc[c] = "r_mark" /\ pc'[c] = "idle" /\ response'.ok)
          => LET t == txns'[loc[c].tid]
                 raw == loc[c].body_reason
             IN  /\ ReportsRefund(t)
                 /\ \E core \in {SubSeq(raw, i, j) :
                                   i \in 1..(Len(raw) + 1), j \in 0..Len(raw)} :
                       /\ IsCoreOf(core, raw)
                       /\ t.notes = IF core = <<>> THEN Refunded
                                    ELSE Refunded \o <<".", " ">> \o core]_vars

\* a refund without a reason and a refund with a reason that came with
\* whitespace around it are both on file and reported
C33_Witness ==
    /\ response = Response("refund", TRUE, "none")
    /\ \E a, b \in TxnIds :
          /\ txns[a].notes = Refunded /\ ReportsRefund(txns[a])
          /\ txns[b].notes = Refunded \o <<".", " ">> \o Damaged
          /\ ReportsRefund(txns[b])

\* C34: a sale's item snapshots (product_name, product_barcode, unit_price,
\* quantity, total_price, vat_amount, vatable_sale) and its transaction's
\* totals are unchanged by every later product edit and by a refund, and a
\* refund credits the member the total computed at sale time
SaleSnapshot(t) ==
    [items |-> t.items, subtotal |-> t.subtotal, vat_amount |-> t.vat_amount,
     vatable_sale |-> t.vatable_sale, total_amount |-> t.total_amount]

C35_FundingBreakdown ==
    \A t \in TxnIds :
       txns[t].status = "completed"
       => IF txns[t].payment_method \in CardMethods
          THEN /\ txns[t].amount_from_balance >= 0
               /\ txns[t].amount_to_utang >= 0
               /\ txns[t].amount_from_balance + txns[t].amount_to_utang
                     = txns[t].total_amount
          ELSE /\ txns[t].amount_from_balance = 0
               /\ txns[t].amount_to_utang = 0
               /\ txns[t].amount_paid >= txns[t].total_amount

\* C36: once a debit sale that was fully funded from the balance has been
\* refunded, with no other operation on the member in between, the member's
\* balance and utang_balance are back at their values of before the sale
C36_RoundTrip ==
    \A m \in Members :
       (/\ Len(txns) = 1
        /\ txns[1].member = m
        /\ txns[1].payment_method = "debit"
        /\ txns[1].amount_from_balance = txns[1].total_amount
        /\ txns[1].status = "cancelled"
        /\ \A c \in Procs : pc[c] = "idle")
       => /\ members[m].balance = InitBalance[m]
          /\ members[m].utang_balance = 0

\* C37: a cash settlement leaves every member's balance and utang_balance
\* unchanged, and a credit settlement leaves the paying member's balance
\* unchanged: the only member fields they change are utang_balance (credit
\* only) and total_patronage
C37_PaymentFrame ==
    [][\A c \in Procs :
         /\ (Settles(c, "cash")
                => \A m \in Members :
                      /\ members'[m].balance = members[m].balance
                      /\ members'[m].utang_balance = members[m].utang_balance)
         /\ (Settles(c, "credit")
                => members'[loc[c].member_id].balance
                      = members[loc[c].member_id].balance)]_vars

\* the money held in all member balances, the fee account's included
TotalBalance(ms) == SeqSum([m \in 1..Cardinality(AllMembers) |-> ms[m].balance])

\* C38: what a settlement credits to the fee account is debited from
\* another member's balance, so a settlement changes the sum of all member
\* balances only by the sale debit (the amount it takes from the balance
\* in payment of the sale)
C38_FeesConserveMoney ==
    [][\A c \in Procs :
         (pc[c] = "s_body" /\ pc'[c] = "idle")
         => LET debit == IF Len(txns') > Len(txns)
                         THEN NewRow.amount_from_balance ELSE 0
                fee == members'[FeeAcct].balance - members[FeeAcct].balance
            IN  /\ TotalBalance(members') = TotalBalance(members) - debit
                /\ fee > 0
                     => \E m \in Members :
                           /\ members'[m].balance
                                 = members[m].balance - debit - fee
                           /\ \A o \in Members \ {m} :
                                 members'[o].balance = members[o].balance]_vars

\* C39: the session is bound to a member only by a scan of an active
\* member's card (any other scan leaves it unchanged); a successful
\* settlement clears the binding, so a debit or credit settlement gets past
\* its checks only in a session bound, by a scan since the last successful
\* settlement, to the member it names; a failed settlement leaves the
\* binding as it was
C39_SessionBinding ==
    [][\A c \in Procs :
         /\ session'[c] \in Members \cup {NoMember}
         /\ (session'[c] # session[c] /\ session'[c] # NoMember)
               => (pc[c] = "idle" /\ pc'[c] = "idle" /\ db' = db)
         /\ (session'[c] # session[c] /\ session'[c] = NoMember)
               => (pc[c] = "s_body" /\ response' = Response("settle", TRUE, "none"))
         /\ (pc[c] = "s_body" /\ pc'[c] = "idle" /\ response'.ok)
               => session'[c] = NoMember
         /\ (response'.op = "settle" /\ ~response'.ok)
               => session' = session
         /\ (pc[c] = "idle" /\ pc'[c] = "s_lock"
                /\ loc'[c].payment_method \in CardMethods)
               => (session[c] \in Members /\ session[c] = loc'[c].member_id)]_vars

\* a member's card settlement is on file, the binding is gone, and the
\* member's next card settlement has just been turned away for want of a
\* fresh scan
C39_Witness ==
    /\ session[1] = NoMember
    /\ Len(txns) = 1
    /\ txns[1].status = "completed"
    /\ txns[1].member \in Members
    /\ (txns[1].amount_from_balance + txns[1].amount_to_utang) > 0
    /\ response = Response("settle", FALSE, "auth_required")
====
